---- MODULE Spec2Model ----
(***************************************************************************)
(* One run of the Streamlit script src/home.py (the active variant, lines  *)
(* 235-419): upload, load_data, column validation, sidebar filters,        *)
(* filter_dataframe, to_excel_download and the aggregates of the           *)
(* visualisation block.                                                    *)
(*                                                                         *)
(* A table (uploaded sheet, DataFrame, exported sheet) is a record         *)
(*   [columns |-> set of column labels, rows |-> sequence of rows]         *)
(* and a row is a function from the table's columns to cells.              *)
(* A Datum cell is [k, day, tod]:  k = "text" (a day-first date string),   *)
(* "dt" (a native spreadsheet datetime), "junk" (unparseable text),        *)
(* "empty", and after parsing "ts" (a Timestamp) or "NaT".  tod is the     *)
(* time of day in half days (0 = midnight).                                *)
(* A Vluchtduur cell is [k, sec, ns]: k = "hms" (an HH:MM:SS string of     *)
(* sec seconds), "num" (a numeric cell), "junk", "empty", and after        *)
(* parsing "float" or "NaN".  A "float"/"num" cell stands for the number   *)
(* of hours (sec + ns * 10^-9) / 3600.                                     *)
(* The four text columns hold strings; NaN is the empty cell.              *)
(***************************************************************************)
EXTENDS Integers, Sequences, FiniteSets, TLC

VARIABLES
    pc,               \* position of the script run
    uploaded,         \* uploaded_file is truthy (line 304)
    file,             \* the sheet pd.read_excel reads from uploaded_file
    df,               \* df (line 305)
    missing,          \* missing (line 309)
    outcome,          \* what the run showed when it ended
    criteria,         \* the six sidebar inputs (lines 319-324)
    filtered_df,      \* filtered_df (line 327)
    xlsx,             \* the sheet held by the bytes of to_excel_download (line 334)
    starts_per_type,  \* line 345
    hours_per_type,   \* line 347
    last_flights,     \* lines 392-394
    veld_counts,      \* lines 406-410
    reloaded          \* load_data applied to the downloaded sheet

vars == <<pc, uploaded, file, df, missing, outcome, criteria, filtered_df, xlsx,
          starts_per_type, hours_per_type, last_flights, veld_counts, reloaded>>

\* ---------------------------------------------------------------- bounds
\* Longest uploaded sheet, in rows.
MaxRows == 2

\* Most sidebar widgets the user sets in one run.
MaxActive == 2

\* ---------------------------------------------------------------- values
NaN == "NaN"

expected_columns == {"Datum", "Veld", "Type", "Registratie", "Startmethode", "Vluchtduur"}

TextColumns == {"Veld", "Type", "Registratie", "Startmethode"}

Days == {1, 2}

Tods == {0, 1}

DatumCell(k, d, t) == [k |-> k, day |-> d, tod |-> t]

DuurCell(k, s, n) == [k |-> k, sec |-> s, ns |-> n]

NaT == DatumCell("NaT", 0, 0)

NaNHours == DuurCell("NaN", 0, 0)

EmptyDatum == DatumCell("empty", 0, 0)

EmptyDuur == DuurCell("empty", 0, 0)

NoTable == [columns |-> {}, rows |-> <<>>]

\* Lexicographic order of the labels, the order groupby sorts its keys in.
LabelOrder == <<"ASK21", "Asperden", "K13", "Lier", "PH-1", "PH-2", "Sleep", "Terlet", "Venlo">>

\* ---------------------------------------------------------------- uploaded sheets
BaseRow ==
    [Datum |-> DatumCell("text", 1, 0), Veld |-> "Venlo", Type |-> "K13",
     Registratie |-> "PH-1", Startmethode |-> "Lier",
     Vluchtduur |-> DuurCell("hms", 5400, 0)]

DatumCells == {DatumCell("text", d, t) : d \in Days, t \in Tods} \cup {DatumCell("junk", 0, 0)}

VeldCells == {"Venlo", "Terlet", "Asperden", NaN}

TypeCells == {"K13", "ASK21", NaN}

RegistratieCells == {"PH-1", "PH-2"}

StartmethodeCells == {"Lier", "Sleep"}

DuurCells == {DuurCell("hms", 5400, 0), DuurCell("hms", -600, 0), DuurCell("junk", 0, 0)}

\* The rows a sheet is made of: BaseRow with at most one cell replaced.
RawRows ==
    {[BaseRow EXCEPT !.Datum = v] : v \in DatumCells}
    \cup {[BaseRow EXCEPT !.Veld = v] : v \in VeldCells}
    \cup {[BaseRow EXCEPT !.Type = v] : v \in TypeCells}
    \cup {[BaseRow EXCEPT !.Registratie = v] : v \in RegistratieCells}
    \cup {[BaseRow EXCEPT !.Startmethode = v] : v \in StartmethodeCells}
    \cup {[BaseRow EXCEPT !.Vluchtduur = v] : v \in DuurCells}

SeqsUpTo(S, n) == UNION {[1..m -> S] : m \in 0..n}

Restrict(row, cols) == [c \in cols |-> row[c]]

\* Sheets with all six columns, and sheets that lack some of them.
CompleteSheets == {[columns |-> expected_columns, rows |-> rs] : rs \in SeqsUpTo(RawRows, MaxRows)}

IncompleteSheets ==
    {[columns |-> cols, rows |-> rs] :
        cols \in (SUBSET expected_columns) \ {expected_columns},
        rs \in {<<>>, <<BaseRow>>}}

Sheet(t) == [columns |-> t.columns, rows |-> [i \in 1..Len(t.rows) |-> Restrict(t.rows[i], t.columns)]]

Sheets == {Sheet(t) : t \in CompleteSheets \cup IncompleteSheets}

\* ---------------------------------------------------------------- load_data
\* pd.to_datetime(..., errors='coerce'): text and native datetimes become
\* Timestamps that keep their time of day, everything else NaT.  A "text" cell
\* names the day it is read as under dayfirst=True; line 390 converts again
\* without dayfirst, and only finds Timestamps and NaT.
to_datetime(c) ==
    IF c.k \in {"text", "dt", "ts"} THEN DatumCell("ts", c.day, c.tod) ELSE NaT

Trunc(a, b) == IF a >= 0 THEN a \div b ELSE -((-a) \div b)

\* pd.to_timedelta(..., errors='coerce').dt.total_seconds() / 3600: a duration
\* string gives its seconds / 3600; a number is taken as a count of nanoseconds,
\* its fraction cut off; everything else NaN.
to_hours(c) ==
    CASE c.k = "hms" -> DuurCell("float", c.sec, 0)
      [] c.k = "num" -> DuurCell("float", 0, Trunc(c.sec, 3600))
      [] OTHER -> NaNHours

load_data(sheet) ==
    [columns |-> sheet.columns,
     rows |-> [i \in 1..Len(sheet.rows) |->
                  [sheet.rows[i] EXCEPT !.Datum = to_datetime(@),
                                        !.Vluchtduur = to_hours(@)]]]

\* load_data raises KeyError when it indexes a column the sheet lacks (250, 251).
LoadRaises(sheet) == ~({"Datum", "Vluchtduur"} \subseteq sheet.columns)

\* ---------------------------------------------------------------- the run
Init ==
    /\ pc = "start"
    /\ uploaded \in BOOLEAN
    /\ file \in (IF uploaded THEN Sheets ELSE {NoTable})
    /\ df = NoTable
    /\ missing = {}
    /\ outcome = "running"
    /\ criteria = [veld |-> {}, type |-> {}, registratie |-> {}, startmethode |-> {},
                   start |-> 0, end |-> 0]
    /\ filtered_df = NoTable
    /\ xlsx = NoTable
    /\ starts_per_type = <<>>
    /\ hours_per_type = <<>>
    /\ last_flights = <<>>
    /\ veld_counts = <<>>
    /\ reloaded = NoTable

\* Lines 313-315: no file, warn and stop.
NoFile ==
    /\ pc = "start"
    /\ ~uploaded
    /\ pc' = "stopped"
    /\ outcome' = "no_file"
    /\ UNCHANGED <<uploaded, file, df, missing, criteria, filtered_df, xlsx,
                   starts_per_type, hours_per_type, last_flights, veld_counts, reloaded>>

\* Line 305, load_data returns.
LoadData ==
    /\ pc = "start"
    /\ uploaded
    /\ ~LoadRaises(file)
    /\ df' = load_data(file)
    /\ pc' = "loaded"
    /\ UNCHANGED <<uploaded, file, missing, outcome, criteria, filtered_df, xlsx,
                   starts_per_type, hours_per_type, last_flights, veld_counts, reloaded>>

\* Line 305, load_data raises: the run ends with the traceback.
LoadDataKeyError ==
    /\ pc = "start"
    /\ uploaded
    /\ LoadRaises(file)
    /\ pc' = "crashed"
    /\ outcome' = "KeyError"
    /\ UNCHANGED <<uploaded, file, df, missing, criteria, filtered_df, xlsx,
                   starts_per_type, hours_per_type, last_flights, veld_counts, reloaded>>

MissingColumns(d) == expected_columns \ d.columns

\* A validation that lets every sheet through.
ValidationNeverStops(m) == FALSE

\* if missing: (line 310).
ValidationStops(m) == m # {}

\* Lines 308-312.
Validate ==
    /\ pc = "loaded"
    /\ missing' = MissingColumns(df)
    /\ IF ValidationStops(missing')
       THEN pc' = "stopped" /\ outcome' = "schema_error"
       ELSE pc' = "validated" /\ UNCHANGED outcome
    /\ UNCHANGED <<uploaded, file, df, criteria, filtered_df, xlsx,
                   starts_per_type, hours_per_type, last_flights, veld_counts, reloaded>>

\* ---------------------------------------------------------------- sidebar
CellsOf(d, col) == {d.rows[i][col] : i \in 1..Len(d.rows)}

\* df[col].dropna().unique(), the options of a multiselect (319-322).
Options(d, col) == CellsOf(d, col) \ {NaN}

\* The widgets the user has set.
Active(c) ==
    {w \in {"veld", "type", "registratie", "startmethode"} : c[w] # {}}
    \cup {w \in {"start", "end"} : c[w] # 0}

\* What the six widgets can return; start/end 0 is None (nothing picked).
Criteria(d) ==
    {c \in [veld : SUBSET Options(d, "Veld"), type : SUBSET Options(d, "Type"),
            registratie : SUBSET Options(d, "Registratie"),
            startmethode : SUBSET Options(d, "Startmethode"),
            start : {0} \cup Days, end : {0} \cup Days] :
        Cardinality(Active(c)) <= MaxActive}

\* ---------------------------------------------------------------- filter_dataframe
\* A Timestamp as a count of half days; pd.to_datetime(date) is midnight.
Instant(c) == c.day * 2 + c.tod

Midnight(day) == day * 2

isin(cell, values) == cell \in values

DatumGe(c, day) == c.k = "ts" /\ Instant(c) >= Midnight(day)

DatumLe(c, day) == c.k = "ts" /\ Instant(c) <= Midnight(day)

\* Lines 255-261: the mask, one boolean per row.
Mask(d, veld, type_, registratie, startmethode, start, end) ==
    [i \in 1..Len(d.rows) |->
        /\ (veld # {} => isin(d.rows[i].Veld, veld))
        /\ (type_ # {} => isin(d.rows[i].Type, type_))
        /\ (registratie # {} => isin(d.rows[i].Registratie, registratie))
        /\ (startmethode # {} => isin(d.rows[i].Startmethode, startmethode))
        /\ (start # 0 => DatumGe(d.rows[i].Datum, start))
        /\ (end # 0 => DatumLe(d.rows[i].Datum, end))]

\* df[mask] (line 262): the rows whose mask entry is True, in order.
BoolIndex(rows, mask) ==
    LET F[i \in 0..Len(rows)] ==
            IF i = 0 THEN <<>>
            ELSE IF mask[i] THEN Append(F[i - 1], rows[i]) ELSE F[i - 1]
    IN F[Len(rows)]

filter_dataframe(d, veld, type_, registratie, startmethode, start, end) ==
    [columns |-> d.columns,
     rows |-> BoolIndex(d.rows, Mask(d, veld, type_, registratie, startmethode, start, end))]

\* ---------------------------------------------------------------- to_excel_download
\* What df.to_excel writes for a cell, and so what pd.read_excel reads back.
WriteDatum(c) == IF c.k = "ts" THEN DatumCell("dt", c.day, c.tod) ELSE EmptyDatum

WriteDuur(c) == IF c.k = "float" THEN DuurCell("num", c.sec, c.ns) ELSE EmptyDuur

to_excel_download(d) ==
    [columns |-> d.columns,
     rows |-> [i \in 1..Len(d.rows) |->
                  [d.rows[i] EXCEPT !.Datum = WriteDatum(@), !.Vluchtduur = WriteDuur(@)]]]

\* ---------------------------------------------------------------- aggregates
\* sort_values(ascending=False) of a series s whose i-th value is
\* (major[i], minor[i]): descending, equal values keep their order.
SortDescending(s, major, minor) ==
    LET Gt(i, j) == major[i] > major[j] \/ (major[i] = major[j] /\ minor[i] > minor[j])
        F[i \in 0..Len(s)] ==
            IF i = 0 THEN <<>>
            ELSE LET t == F[i - 1]
                     k == Cardinality({j \in 1..Len(t) : ~Gt(i, t[j])})
                 IN SubSeq(t, 1, k) \o <<i>> \o SubSeq(t, k + 1, Len(t))
    IN [j \in 1..Len(s) |-> s[F[Len(s)][j]]]

\* The non-NaN labels of a column in order of first appearance.
FirstSeen(rows, col) ==
    LET F[i \in 0..Len(rows)] ==
            IF i = 0 THEN <<>>
            ELSE IF rows[i][col] = NaN \/ \E j \in 1..Len(F[i - 1]) : F[i - 1][j] = rows[i][col]
                 THEN F[i - 1]
                 ELSE Append(F[i - 1], rows[i][col])
    IN F[Len(rows)]

CountOf(rows, col, key) == Cardinality({i \in 1..Len(rows) : rows[i][col] = key})

CountsDropNa(rows, col) ==
    LET keys == FirstSeen(rows, col)
    IN [j \in 1..Len(keys) |-> [key |-> keys[j], n |-> CountOf(rows, col, keys[j])]]

\* Series.value_counts(): NaN labels dropped, counts descending, ties in order
\* of first appearance.
value_counts(rows, col) ==
    LET c == CountsDropNa(rows, col)
    IN SortDescending(c, [j \in 1..Len(c) |-> c[j].n], [j \in 1..Len(c) |-> 0])

\* groupby(col): the non-NaN keys, sorted.
GroupKeys(rows, col) ==
    SelectSeq(LabelOrder, LAMBDA s : \E i \in 1..Len(rows) : rows[i][col] = s)

HoursAdd(a, b) == DuurCell("float", a.sec + b.sec, a.ns + b.ns)

\* groupby(...)['Vluchtduur'].sum() for one key: NaN is skipped.
SumHours(rows, key) ==
    LET F[i \in 0..Len(rows)] ==
            IF i = 0 THEN DuurCell("float", 0, 0)
            ELSE IF rows[i].Type = key /\ rows[i].Vluchtduur.k = "float"
                 THEN HoursAdd(F[i - 1], rows[i].Vluchtduur)
                 ELSE F[i - 1]
    IN F[Len(rows)]

\* Line 347: sums per Type, sorted descending.
HoursPerType(rows) ==
    LET keys == GroupKeys(rows, "Type")
        sums == [j \in 1..Len(keys) |-> [key |-> keys[j], hours |-> SumHours(rows, keys[j])]]
    IN SortDescending(sums, [j \in 1..Len(keys) |-> sums[j].hours.sec],
                      [j \in 1..Len(keys) |-> sums[j].hours.ns])

\* groupby('Type')['Datum'].max() for one key: NaT is skipped.
MaxDatum(rows, key) ==
    LET own == {i \in 1..Len(rows) : rows[i].Type = key /\ rows[i].Datum.k = "ts"}
    IN IF own = {} THEN NaT
       ELSE rows[CHOOSE i \in own : \A j \in own : Instant(rows[j].Datum) <= Instant(rows[i].Datum)].Datum

IntCell(k, v) == [k |-> k, v |-> v]

\* strftime('%d-%m-%Y'): the calendar day, the time of day is not printed.
Strftime(c) == IF c.k = "ts" THEN IntCell("str", c.day) ELSE IntCell("NaN", 0)

\* (today - Datum).dt.days, today at midnight.
DaysAgo(today, c) ==
    IF c.k = "ts" THEN IntCell("int", (Midnight(today) - Instant(c)) \div 2) ELSE IntCell("NaN", 0)

\* The frame the recency block reads (line 392).
LastFlightsSource(base, filtered) == base

\* Lines 392-394.
LastFlights(rows, today) ==
    LET keys == GroupKeys(rows, "Type")
    IN [j \in 1..Len(keys) |->
          LET m == MaxDatum(rows, keys[j])
          IN [Type |-> keys[j], Datum |-> m, Laatste_vlucht |-> Strftime(m),
              Dagen_geleden |-> DaysAgo(today, m)]]

\* A conversion that also cuts the time of day off.
ReparseDatumNormalize(d) ==
    [d EXCEPT !.rows = [i \in 1..Len(d.rows) |->
        [d.rows[i] EXCEPT !.Datum = IF @.k = "ts" THEN DatumCell("ts", @.day, 0) ELSE NaT]]]

\* Line 390: df['Datum'] = pd.to_datetime(df['Datum'], errors='coerce').
ReparseDatum(d) ==
    [d EXCEPT !.rows = [i \in 1..Len(d.rows) |-> [d.rows[i] EXCEPT !.Datum = to_datetime(@)]]]

\* ---------------------------------------------------------------- veld_coords
Coord(lat, lon) == [nan |-> FALSE, lat |-> lat, lon |-> lon]

NaNCoord == [nan |-> TRUE, lat |-> 0, lon |-> 0]

\* The dict literal of lines 271-288, in source order, in 10^-5 degrees.
veld_coords_items ==
    << <<"Venlo", Coord(5138700, 615600)>>,
       <<"Eindhoven", Coord(5145000, 537400)>>,
       <<"Malden", Coord(5177800, 585700)>>,
       <<"Terlet", Coord(5205100, 593600)>>,
       <<"Gilze", Coord(5156700, 493000)>>,
       <<"Soesterberg", Coord(5212300, 527600)>>,
       <<"Weert", Coord(5125300, 570500)>>,
       <<"Schmallenberg", Coord(5115260, 829080)>>,
       <<"Kamp Linfort", Coord(5149580, 653210)>>,
       <<"Dahlemer-Binz (DE)", Coord(5040454, 652994)>>,
       <<"LeBlanc (F)", Coord(4663000, 106000)>>,
       <<"Sinsheim", Coord(4924890, 888850)>>,
       <<"Terlet", Coord(5206030, 593860)>>,
       <<"Stadlohn", Coord(5199210, 691380)>>,
       <<"Stendal", Coord(5260410, 1185180)>> >>

\* veld_coords.get(x, (np.nan, np.nan)): of a repeated key the last item counts.
veld_coords_get(x) ==
    LET at == {i \in 1..Len(veld_coords_items) : veld_coords_items[i][1] = x}
    IN IF at = {} THEN NaNCoord
       ELSE veld_coords_items[CHOOSE i \in at : \A j \in at : j <= i][2]

\* Lines 406-407.
VeldCountsRaw(rows) ==
    LET vc == value_counts(rows, "Veld")
    IN [j \in 1..Len(vc) |-> [Veld |-> vc[j].key, Aantal_starts |-> vc[j].n]]

\* No dropna: the rows without coordinates stay.
DropNaCoordsKeepAll(s) == s

\* Line 410: dropna(subset=['Latitude', 'Longitude']).
DropNaCoords(s) == SelectSeq(s, LAMBDA r : ~r.coord.nan)

\* Lines 408-410.
VeldCountsGeo(counts) ==
    DropNaCoords([j \in 1..Len(counts) |->
        [Veld |-> counts[j].Veld, Aantal_starts |-> counts[j].Aantal_starts,
         coord |-> veld_coords_get(counts[j].Veld)]])

\* ---------------------------------------------------------------- the run, continued
\* Lines 319-329: the widgets return, the filter runs.
SidebarFilter ==
    /\ pc = "validated"
    /\ \E c \in Criteria(df) :
          /\ criteria' = c
          /\ filtered_df' = filter_dataframe(df, c.veld, c.type, c.registratie,
                                             c.startmethode, c.start, c.end)
    /\ pc' = "filtered"
    /\ UNCHANGED <<uploaded, file, df, missing, outcome, xlsx,
                   starts_per_type, hours_per_type, last_flights, veld_counts, reloaded>>

\* Lines 332-337.
Download ==
    /\ pc = "filtered"
    /\ xlsx' = to_excel_download(filtered_df)
    /\ pc' = "exported"
    /\ UNCHANGED <<uploaded, file, df, missing, outcome, criteria, filtered_df,
                   starts_per_type, hours_per_type, last_flights, veld_counts, reloaded>>

\* filtered_df.empty (line 344).
IsEmpty(d) == Len(d.rows) = 0

\* Lines 418-419.
NoResults ==
    /\ pc = "exported"
    /\ IsEmpty(filtered_df)
    /\ pc' = "done"
    /\ outcome' = "no_results"
    /\ UNCHANGED <<uploaded, file, df, missing, criteria, filtered_df, xlsx,
                   starts_per_type, hours_per_type, last_flights, veld_counts, reloaded>>

\* Lines 344-384.
Aggregate ==
    /\ pc = "exported"
    /\ ~IsEmpty(filtered_df)
    /\ starts_per_type' = value_counts(filtered_df.rows, "Type")
    /\ hours_per_type' = HoursPerType(filtered_df.rows)
    /\ pc' = "aggregated"
    /\ UNCHANGED <<uploaded, file, df, missing, outcome, criteria, filtered_df, xlsx,
                   last_flights, veld_counts, reloaded>>

\* pd.Timestamp.now().normalize() (line 391), as a day.
Todays == {3}

\* Lines 387-400.
Recency ==
    /\ pc = "aggregated"
    /\ df' = ReparseDatum(df)
    /\ \E today \in Todays :
          last_flights' = LastFlights(LastFlightsSource(df', filtered_df).rows, today)
    /\ pc' = "recency"
    /\ UNCHANGED <<uploaded, file, missing, outcome, criteria, filtered_df, xlsx,
                   starts_per_type, hours_per_type, veld_counts, reloaded>>

\* Lines 406-407.
VeldCount ==
    /\ pc = "recency"
    /\ veld_counts' = VeldCountsRaw(filtered_df.rows)
    /\ pc' = "counted"
    /\ UNCHANGED <<uploaded, file, df, missing, outcome, criteria, filtered_df, xlsx,
                   starts_per_type, hours_per_type, last_flights, reloaded>>

\* Lines 408-416.
VeldMap ==
    /\ pc = "counted"
    /\ veld_counts' = VeldCountsGeo(veld_counts)
    /\ pc' = "done"
    /\ outcome' = "rendered"
    /\ UNCHANGED <<uploaded, file, df, missing, criteria, filtered_df, xlsx,
                   starts_per_type, hours_per_type, last_flights, reloaded>>

\* The downloaded sheet goes through load_data again.
Reload ==
    /\ pc = "done"
    /\ reloaded' = load_data(xlsx)
    /\ pc' = "reloaded"
    /\ UNCHANGED <<uploaded, file, df, missing, outcome, criteria, filtered_df, xlsx,
                   starts_per_type, hours_per_type, last_flights, veld_counts>>

Next ==
    \/ NoFile \/ LoadData \/ LoadDataKeyError \/ Validate
    \/ SidebarFilter \/ Download \/ NoResults \/ Aggregate
    \/ Recency \/ VeldCount \/ VeldMap \/ Reload

Spec == Init /\ [][Next]_vars

\* ---------------------------------------------------------------- properties
Filtered == pc \in {"filtered", "exported", "aggregated", "recency", "counted", "done", "reloaded"}

Aggregated == pc \in {"aggregated", "recency", "counted"} \/ outcome = "rendered"

RecencyDone == pc \in {"recency", "counted"} \/ outcome = "rendered"

Rendered == outcome = "rendered"

RunOver == pc \in {"stopped", "crashed", "done", "reloaded"}

\* C1: a sheet that lacks a non-empty set M of the required columns ends the
\* run with the schema failure that reports exactly M, no record reaches the
\* filter or the export, and no exception ends the run instead.
C1_MissingColumnsReported ==
    (uploaded /\ RunOver /\ expected_columns \ file.columns # {})
        => /\ outcome = "schema_error"
           /\ missing = expected_columns \ file.columns
           /\ filtered_df = NoTable
           /\ xlsx = NoTable

HoursGt(a, b) == a.sec > b.sec \/ (a.sec = b.sec /\ a.ns > b.ns)

\* C2: every record of the loaded Dataset has a parsed date and a parsed,
\* strictly positive duration.
C2_LoadedRecordsParsed ==
    (pc = "validated" \/ Filtered)
        => \A i \in 1..Len(df.rows) :
              /\ df.rows[i].Datum.k = "ts"
              /\ df.rows[i].Vluchtduur.k = "float"
              /\ HoursGt(df.rows[i].Vluchtduur, DuurCell("float", 0, 0))

\* A record satisfies the criteria: AND over the set dimensions, membership
\* within a dimension, the date bounds on the calendar day, both inclusive.
SatisfiesText(r, c) ==
    /\ (c.veld # {} => r.Veld \in c.veld)
    /\ (c.type # {} => r.Type \in c.type)
    /\ (c.registratie # {} => r.Registratie \in c.registratie)
    /\ (c.startmethode # {} => r.Startmethode \in c.startmethode)

SatisfiesDates(r, c) ==
    /\ (c.start # 0 => r.Datum.k = "ts" /\ r.Datum.day >= c.start)
    /\ (c.end # 0 => r.Datum.k = "ts" /\ r.Datum.day <= c.end)

Satisfies(r, c) == SatisfiesText(r, c) /\ SatisfiesDates(r, c)

Kept(r) == \E j \in 1..Len(filtered_df.rows) : filtered_df.rows[j] = r

\* C3: the filter returns exactly the records that satisfy every set
\* dimension, in their original order.
C3_FilterExact ==
    Filtered => filtered_df.rows = SelectSeq(df.rows, LAMBDA r : Satisfies(r, criteria))

\* C4: a record dated on the day of a date bound is kept, whatever its time of
\* day, when it satisfies the other dimensions; either bound works alone.
C4_DateBoundsInclusive ==
    Filtered
        => \A i \in 1..Len(df.rows) :
              LET r == df.rows[i]
              IN (/\ Satisfies(r, criteria)
                  /\ r.Datum.k = "ts"
                  /\ r.Datum.day \in {criteria.start, criteria.end})
                    => Kept(r)

SumCounts(s) ==
    LET F[i \in 0..Len(s)] == IF i = 0 THEN 0 ELSE F[i - 1] + s[i].n
    IN F[Len(s)]

\* C5: the counts of starts_per_type sum to the number of aggregated records.
C5_StartsSumToLen ==
    Aggregated => SumCounts(starts_per_type) = Len(filtered_df.rows)

\* C6: last_flights has exactly the types of the filtered collection, each
\* with the latest date among the filtered records of that type.
C6_LastFlightsOfFiltered ==
    RecencyDone
        => /\ {last_flights[j].Type : j \in 1..Len(last_flights)} = Options(filtered_df, "Type")
           /\ \A j \in 1..Len(last_flights) :
                 LET own == {i \in 1..Len(filtered_df.rows) :
                                /\ filtered_df.rows[i].Type = last_flights[j].Type
                                /\ filtered_df.rows[i].Datum.k = "ts"}
                 IN IF own = {} THEN last_flights[j].Datum = NaT
                    ELSE /\ \E i \in own : filtered_df.rows[i].Datum = last_flights[j].Datum
                         /\ \A i \in own :
                               Instant(filtered_df.rows[i].Datum) <= Instant(last_flights[j].Datum)

\* Two hour values differ by at most one second.
WithinOneSecond(a, b) ==
    \/ a.k = "NaN" /\ b.k = "NaN"
    \/ /\ a.k = "float" /\ b.k = "float"
       /\ \/ a.sec = b.sec
          \/ a.sec - b.sec = 1 /\ a.ns <= b.ns
          \/ b.sec - a.sec = 1 /\ b.ns <= a.ns

\* C7: loading the exported sheet gives back the exported Dataset: the same
\* rows in the same order, the durations to within one second.
C7_RoundTrip ==
    pc = "reloaded"
        => /\ reloaded.columns = filtered_df.columns
           /\ Len(reloaded.rows) = Len(filtered_df.rows)
           /\ \A i \in 1..Len(filtered_df.rows) :
                 /\ \A c \in TextColumns : reloaded.rows[i][c] = filtered_df.rows[i][c]
                 /\ reloaded.rows[i].Datum = filtered_df.rows[i].Datum
                 /\ WithinOneSecond(reloaded.rows[i].Vluchtduur, filtered_df.rows[i].Vluchtduur)

\* The coordinate table's entry for a field: the dict keeps one value per key,
\* the one written last.
TableKeys == {veld_coords_items[i][1] : i \in 1..Len(veld_coords_items)}

TableEntry(f) ==
    veld_coords_items[CHOOSE i \in 1..Len(veld_coords_items) :
        /\ veld_coords_items[i][1] = f
        /\ \A j \in (i + 1)..Len(veld_coords_items) : veld_coords_items[j][1] # f][2]

C9_BaseUnchanged ==
    (pc = "validated" \/ Filtered) => df = load_data(file)

C9_Witness ==
    /\ pc = "reloaded"
    /\ Rendered
    /\ criteria.type # {}
    /\ Len(filtered_df.rows) < Len(df.rows)
    /\ \E i \in 1..Len(df.rows) : df.rows[i].Datum.tod = 1

\* C10: filter, export and aggregation run only on an uploaded sheet that
\* lacks no required column, and the aggregation only on a non-empty filter
\* result; a run without a sheet, or with a column missing, ends before them.
C10_StepsGuarded ==
    /\ (pc = "validated" \/ Filtered) => (uploaded /\ expected_columns \subseteq file.columns)
    /\ (~uploaded \/ expected_columns \ file.columns # {})
          => /\ filtered_df = NoTable /\ xlsx = NoTable
             /\ starts_per_type = <<>> /\ hours_per_type = <<>>
             /\ last_flights = <<>> /\ veld_counts = <<>>
    /\ (starts_per_type # <<>> \/ hours_per_type # <<>> \/ last_flights # <<>>
           \/ veld_counts # <<>> \/ Aggregated)
          => (Filtered /\ xlsx # NoTable /\ Len(filtered_df.rows) > 0)

C10_Witness ==
    pc = "stopped" /\ outcome = "schema_error" /\ "Veld" \in missing /\ Len(df.rows) > 0
====
